---- MODULE Spec2Model ----
(***************************************************************************)
(* CanvasHistoryManager (lib/canvas/canvasUtils): the undo/redo history of *)
(* a fabric canvas, with its debounced snapshot capture, its guard flags   *)
(* and the timers and asynchronous object reconstructions of a replay.     *)
(*                                                                         *)
(* Time is discrete.  Every timer holds the milliseconds left until it     *)
(* expires; Tick advances the clock by Quantum, the greatest common        *)
(* divisor of the three delays of the code, and is enabled only when no    *)
(* expired timer is waiting to run.  Calls of the public API and user      *)
(* edits of the canvas can happen at any instant.                          *)
(*                                                                         *)
(* The module also holds the text measurement and shape sizing functions   *)
(* of lib/canvas/textUtils, as operators applied by SpecSize.              *)
(***************************************************************************)
EXTENDS Integers, Sequences, FiniteSets, TLC

VARIABLES
    canvas,          \* canvas.getObjects(): the objects on the surface, in z-order
    backgroundColor, \* canvas.backgroundColor
    history,         \* CanvasHistoryManager.history (the data of each CanvasState)
    currentIndex,    \* CanvasHistoryManager.currentIndex (0-based, -1 = none)
    isRedoing,       \* guard flags
    isUndoing,
    isLoading,
    saveTimers,      \* pending timers set by debouncedSave, oldest first: ms left of each
    saveTimeout,     \* TRUE iff the handle in saveTimeout names a pending timer (the newest)
    initTimeout,     \* the constructor's timer: ms left, NoTimer once it has fired
    replays,         \* the loadState calls in flight, and the latest one: settle timer,
                     \* records to restore, reconstructions pending and skipped
    op,              \* the step that ran last
    saved,           \* what the saveState() of the last step did to history
    trace,           \* the calls and edits made from outside so far, with what they returned
    signals,         \* mutation signals of the current burst (the latest one, if none is open)
    calls,           \* saveState() invocations the debounce callback made for that burst
    burstUser,       \* some signal of that burst came from an edit of the user
    burstOpen,       \* some signal of that burst arrived while no guard flag was set
    applied          \* a call of a function of textUtils: its arguments and, once it
                     \* has returned, its result

vars == <<canvas, backgroundColor, history, currentIndex, isRedoing, isUndoing,
          isLoading, saveTimers, saveTimeout, initTimeout, replays, op, saved,
          trace, signals, calls, burstUser, burstOpen, applied>>

(***************************************************************************)
(* Bounds of the model.                                                    *)
(***************************************************************************)
MaxOps == 3

\* objects on a surface handed to the manager
MaxSurface == 3

\* characters of a text
MaxText == 6

\* shapes of a batch
MaxBatch == 2

\* nodes of a diagram
MaxNodes == 3

(***************************************************************************)
(* Constants of the program.                                               *)
(***************************************************************************)
maxHistorySize == 50
DebounceDelay == 300
InitDelay == 100
SettleDelay == 50

NoTimer == -1

RECURSIVE GCD(_, _)
GCD(a, b) == IF b = 0 THEN a ELSE GCD(b, a % b)

Quantum == GCD(GCD(DebounceDelay, InitDelay), SettleDelay)

(***************************************************************************)
(* Objects of the drawing surface.  left stands for the geometry of an     *)
(* object; selectable is a property toObject(['id','excludeFromExport'])   *)
(* does not serialize.                                                     *)
(***************************************************************************)
GridLight == "#F1F5F9"
GridDark == "#CBD5E1"
LineStroke == "#374151"
NoStroke == ""

\* a line drawn with the line tool, the text of a shape, a line of the grid
Shape == [id |-> 1, excludeFromExport |-> FALSE, stroke |-> LineStroke, left |-> 0, selectable |-> TRUE,
     malformed |-> FALSE]
Label == [id |-> 2, excludeFromExport |-> FALSE, stroke |-> NoStroke, left |-> 0, selectable |-> FALSE,
     malformed |-> FALSE]
GridLine == [id |-> 3, excludeFromExport |-> TRUE, stroke |-> GridLight, left |-> 0, selectable |-> FALSE,
     malformed |-> FALSE]
\* every fifth line of the grid is drawn in the darker colour
GridHeavy == [id |-> 4, excludeFromExport |-> TRUE, stroke |-> GridDark, left |-> 0, selectable |-> FALSE,
     malformed |-> FALSE]

\* an object whose toObject throws
Broken == [id |-> 5, excludeFromExport |-> FALSE, stroke |-> LineStroke, left |-> 0,
           selectable |-> TRUE, malformed |-> TRUE]

Pool == {Shape, Label, GridLine}

\* the filter without its test of excludeFromExport
isUserObjectByStroke(obj) ==
    /\ obj.stroke # GridLight
    /\ obj.stroke # GridDark

\* the filter of saveState and loadState: user content, not grid or system objects
isUserObject(obj) ==
    /\ ~obj.excludeFromExport
    /\ obj.stroke # GridLight
    /\ obj.stroke # GridDark

\* the objects loadState keeps, were the darker grid colour forgotten
isSystemObjectLight(obj) == obj.excludeFromExport /\ obj.stroke = GridLight

isSystemObject(obj) == ~isUserObject(obj)

userObjects(objs) == SelectSeq(objs, isUserObject)

\* obj.toObject(['id', 'excludeFromExport']): the serialized record of an object
toObject(obj) ==
    [id |-> obj.id, excludeFromExport |-> obj.excludeFromExport,
     stroke |-> obj.stroke, left |-> obj.left]

\* fabric.util.enlivenObjects([objData]): properties that were not serialized take their default
enlivenObject(rec) ==
    [id |-> rec.id, excludeFromExport |-> rec.excludeFromExport,
     stroke |-> rec.stroke, left |-> rec.left, selectable |-> TRUE,
     malformed |-> FALSE]

\* the stateData of saveState: the user objects in surface order and the background
stateData(objs, bg) ==
    [objects |-> [i \in 1..Len(userObjects(objs)) |-> toObject(userObjects(objs)[i])],
     backgroundColor |-> bg]

\* JSON.stringify of the state throws: toObject of a user object does
serializationThrows(objs) ==
    \E k \in 1..Len(userObjects(objs)) : userObjects(objs)[k].malformed

canUndo == currentIndex > 0

canRedo == currentIndex < Len(history) - 1

guarded == isRedoing \/ isUndoing \/ isLoading

(***************************************************************************)
(* saveState.                                                              *)
(***************************************************************************)
\* slice(0, currentIndex) in place of slice(0, currentIndex + 1)
sliceHistoryShort(h, i) == IF i < Len(h) - 1 THEN SubSeq(h, 1, i) ELSE h

\* slice(0, currentIndex + 2): one snapshot of the redo branch survives
sliceHistoryLong(h, i) == IF i < Len(h) - 1 THEN SubSeq(h, 1, i + 2) ELSE h

\* "Remove future history if we're not at the end"
sliceHistory(h, i) == IF i < Len(h) - 1 THEN SubSeq(h, 1, i + 1) ELSE h

\* the push without the slice before it
savedHistoryUnsliced(h, i, data) ==
    LET pushed == Append(h, data)
    IN  IF Len(pushed) > maxHistorySize THEN Tail(pushed) ELSE pushed

\* history after the push and the size limit
savedHistory(h, i, data) ==
    LET pushed == Append(sliceHistory(h, i), data)
    IN  IF Len(pushed) > maxHistorySize THEN Tail(pushed) ELSE pushed

\* the increment without the decrement that goes with history.shift()
savedIndexUnshifted(h, i) == i + 1

\* currentIndex after the increment and the size limit
savedIndex(h, i) ==
    IF Len(sliceHistory(h, i)) + 1 > maxHistorySize THEN (i + 1) - 1 ELSE i + 1

\* which of its branches a capture took
savedKind(h, i) ==
    IF i < Len(h) - 1 THEN "sliced"
    ELSE IF Len(h) + 1 > maxHistorySize THEN "shifted"
    ELSE "pushed"

\* saveState() that slices the redo branch off before it serializes
saveStateSliceFirst(h, i) ==
    IF isRedoing \/ isUndoing \/ isLoading
    THEN /\ history' = h
         /\ currentIndex' = i
         /\ saved' = "none"
    ELSE IF serializationThrows(canvas)
    THEN /\ history' = sliceHistory(h, i)
         /\ currentIndex' = i
         /\ saved' = "threw"
    ELSE /\ history' = savedHistory(h, i, stateData(canvas, backgroundColor))
         /\ currentIndex' = savedIndex(h, i)
         /\ saved' = savedKind(h, i)

\* saveState() on history h and index i: a no-op under a guard flag; when the
\* serialization throws, the catch leaves history and index as they are;
\* otherwise it captures the surface
saveState(h, i) ==
    IF isRedoing \/ isUndoing \/ isLoading
    THEN /\ history' = h
         /\ currentIndex' = i
         /\ saved' = "none"
    ELSE IF serializationThrows(canvas)
    THEN /\ history' = h
         /\ currentIndex' = i
         /\ saved' = "threw"
    ELSE /\ history' = savedHistory(h, i, stateData(canvas, backgroundColor))
         /\ currentIndex' = savedIndex(h, i)
         /\ saved' = savedKind(h, i)

(***************************************************************************)
(* The debounce of setupEventListeners.                                    *)
(***************************************************************************)
\* debouncedSave without its clearTimeout
clearTimeoutNone(ts, live) == ts

\* clearTimeout(saveTimeout): cancels the timer the handle names, if it is still pending
clearTimeout(ts, live) == IF live THEN SubSeq(ts, 1, Len(ts) - 1) ELSE ts

\* debouncedSave, run once per mutation signal: cancel the pending timer, start a new one
debouncedSave(ts, live) == Append(clearTimeout(ts, live), DebounceDelay)

\* n >= 1 signals delivered to debouncedSave one after the other
RECURSIVE debouncedSaves(_, _, _)
debouncedSaves(n, ts, live) ==
    IF n = 0 THEN ts ELSE debouncedSaves(n - 1, debouncedSave(ts, live), TRUE)

\* canvas.on(...): n signals reach debouncedSave in this step (none if n = 0);
\* user tells an edit of the user from a replay, g whether a guard flag is set
\* when they arrive
Signal(n, user, g) ==
    IF n = 0
    THEN UNCHANGED <<saveTimers, saveTimeout, signals, calls, burstUser, burstOpen>>
    ELSE /\ saveTimers' = debouncedSaves(n, saveTimers, saveTimeout)
         /\ saveTimeout' = TRUE
         /\ signals' = IF saveTimers = <<>> THEN n ELSE signals + n
         /\ calls' = IF saveTimers = <<>> THEN 0 ELSE calls
         /\ burstUser' = (user \/ (saveTimers # <<>> /\ burstUser))
         /\ burstOpen' = (~g \/ (saveTimers # <<>> /\ burstOpen))

RemoveAt(s, k) == SubSeq(s, 1, k - 1) \o SubSeq(s, k + 1, Len(s))

\* the callback of the debounce timer
DebounceTimer(k) ==
    /\ k \in 1..Len(saveTimers)
    /\ saveTimers[k] = 0
    /\ \A j \in 1..(k - 1) : saveTimers[j] > 0
    /\ saveTimers' = RemoveAt(saveTimers, k)
    /\ saveTimeout' = (saveTimeout /\ k < Len(saveTimers))
    /\ IF ~isRedoing /\ ~isUndoing /\ ~isLoading
       THEN /\ saveState(history, currentIndex)
            /\ calls' = calls + 1
       ELSE /\ saved' = "none"
            /\ UNCHANGED <<history, currentIndex, calls>>
    /\ op' = "debounceTimer"
    /\ UNCHANGED <<canvas, backgroundColor, isRedoing, isUndoing, isLoading,
                   initTimeout, replays, trace, signals, burstUser, burstOpen>>
    /\ UNCHANGED applied

\* the constructor's setTimeout(() => this.saveState(), 100)
ConstructorTimer ==
    /\ initTimeout = 0
    /\ initTimeout' = NoTimer
    /\ saveState(history, currentIndex)
    /\ op' = "constructorTimer"
    /\ UNCHANGED <<canvas, backgroundColor, isRedoing, isUndoing, isLoading, saveTimers,
                   saveTimeout, replays, trace, signals, calls, burstUser, burstOpen>>
    /\ UNCHANGED applied

(***************************************************************************)
(* Replay: loadState, the reconstructions it starts and its settle timer.  *)
(***************************************************************************)
\* a loadState call: its settle timer, the records it restores, the positions
\* whose enlivenObjects promise is pending and those that were skipped
startedReplay(data) ==
    [timer |-> SettleDelay, objects |-> data.objects,
     todo |-> 1..Len(data.objects), skipped |-> {}]

inFlight(e) == e.timer # NoTimer \/ e.todo # {}

\* an entry is dropped once its timer has fired and no promise is pending,
\* unless it is the latest
liveReplays(rs) ==
    SelectSeq(SubSeq(rs, 1, Len(rs) - 1), inFlight) \o SubSeq(rs, Len(rs), Len(rs))

\* a loadState that leaves the user objects of the surface in place
loadStateKeepsSurface(data) ==
    /\ isLoading' = TRUE
    /\ canvas' = canvas
    /\ Signal(0, FALSE, TRUE)
    /\ backgroundColor' = IF data.backgroundColor # "" THEN data.backgroundColor
                                                    ELSE backgroundColor
    /\ replays' = liveReplays(Append(replays, startedReplay(data)))

\* loadState(stateData), the synchronous part
loadState(data) ==
    /\ isLoading' = TRUE
    /\ canvas' = SelectSeq(canvas, isSystemObject)
    /\ Signal(Len(userObjects(canvas)), FALSE, TRUE)
    /\ backgroundColor' = IF data.backgroundColor # "" THEN data.backgroundColor
                                                    ELSE backgroundColor
    /\ replays' = liveReplays(Append(replays, startedReplay(data)))

\* enlivenObjects([objData]).then(...): one object of a replay is rebuilt and added
EnlivenResolved(r, p) ==
    /\ r \in 1..Len(replays)
    /\ p \in replays[r].todo
    /\ canvas' = Append(canvas, enlivenObject(replays[r].objects[p]))
    /\ Signal(1, FALSE, guarded)
    /\ replays' = liveReplays([replays EXCEPT ![r].todo = @ \ {p}])
    /\ op' = "enlivenResolved"
    /\ saved' = "none"
    /\ UNCHANGED <<backgroundColor, history, currentIndex, isRedoing, isUndoing,
                   isLoading, initTimeout, trace>>
    /\ UNCHANGED applied

\* a rejection that abandons the records still pending
enlivenRejectedAborts(r, p) ==
    /\ r \in 1..Len(replays)
    /\ p \in replays[r].todo
    /\ replays' = liveReplays([replays EXCEPT ![r].todo = {},
                                              ![r].skipped = @ \cup {p}])
    /\ op' = "enlivenRejected"
    /\ saved' = "none"
    /\ UNCHANGED <<canvas, backgroundColor, history, currentIndex, isRedoing, isUndoing,
                   isLoading, saveTimers, saveTimeout, initTimeout, trace, signals,
                   calls, burstUser, burstOpen>>
    /\ UNCHANGED applied

\* enlivenObjects([objData]) rejects or yields nothing: .catch(console.error)
EnlivenRejected(r, p) ==
    /\ r \in 1..Len(replays)
    /\ p \in replays[r].todo
    /\ replays' = liveReplays([replays EXCEPT ![r].todo = @ \ {p},
                                              ![r].skipped = @ \cup {p}])
    /\ op' = "enlivenRejected"
    /\ saved' = "none"
    /\ UNCHANGED <<canvas, backgroundColor, history, currentIndex, isRedoing, isUndoing,
                   isLoading, saveTimers, saveTimeout, initTimeout, trace, signals,
                   calls, burstUser, burstOpen>>
    /\ UNCHANGED applied

\* a settle timer that leaves isLoading as it is
settleTimerKeepsLoading(r) ==
    /\ r \in 1..Len(replays)
    /\ replays[r].timer = 0
    /\ \A j \in 1..(r - 1) : replays[j].timer = NoTimer
    /\ isUndoing' = FALSE
    /\ isRedoing' = FALSE
    /\ isLoading' = isLoading
    /\ replays' = liveReplays([replays EXCEPT ![r].timer = NoTimer])
    /\ op' = "settleTimer"
    /\ saved' = "none"
    /\ UNCHANGED <<canvas, backgroundColor, history, currentIndex, saveTimers, saveTimeout,
                   initTimeout, trace, signals, calls, burstUser, burstOpen>>
    /\ UNCHANGED applied

\* the setTimeout(..., 50) of loadState: redraw and clear the guard flags
SettleTimer(r) ==
    /\ r \in 1..Len(replays)
    /\ replays[r].timer = 0
    /\ \A j \in 1..(r - 1) : replays[j].timer = NoTimer
    /\ isUndoing' = FALSE
    /\ isRedoing' = FALSE
    /\ isLoading' = FALSE
    /\ replays' = liveReplays([replays EXCEPT ![r].timer = NoTimer])
    /\ op' = "settleTimer"
    /\ saved' = "none"
    /\ UNCHANGED <<canvas, backgroundColor, history, currentIndex, saveTimers, saveTimeout,
                   initTimeout, trace, signals, calls, burstUser, burstOpen>>
    /\ UNCHANGED applied

(***************************************************************************)
(* The public operations.                                                  *)
(***************************************************************************)
\* a call or an edit from outside, and what it returned
Called(name, result) ==
    /\ Len(trace) < MaxOps
    /\ trace' = Append(trace, [op |-> name, ret |-> result])
    /\ op' = name

\* undo that replays before it decrements: loadState(history[currentIndex]); currentIndex--
undoStale ==
    /\ Called("undo", canUndo)
    /\ IF canUndo
       THEN /\ isUndoing' = TRUE
            /\ currentIndex' = currentIndex - 1
            /\ loadState(history[currentIndex + 1])
            /\ UNCHANGED <<history, isRedoing>>
       ELSE UNCHANGED <<canvas, backgroundColor, history, currentIndex, isRedoing,
                        isUndoing, isLoading, saveTimers, saveTimeout, replays,
                        signals, calls, burstUser, burstOpen>>
    /\ saved' = "none"
    /\ UNCHANGED initTimeout
    /\ UNCHANGED applied

undo ==
    /\ Called("undo", canUndo)
    /\ IF canUndo
       THEN /\ isUndoing' = TRUE
            /\ currentIndex' = currentIndex - 1
            /\ loadState(history[(currentIndex - 1) + 1])
            /\ UNCHANGED <<history, isRedoing>>
       ELSE UNCHANGED <<canvas, backgroundColor, history, currentIndex, isRedoing,
                        isUndoing, isLoading, saveTimers, saveTimeout, replays,
                        signals, calls, burstUser, burstOpen>>
    /\ saved' = "none"
    /\ UNCHANGED initTimeout
    /\ UNCHANGED applied

\* loadState whose try block throws at JSON.parse: the catch clears the flags
loadStateThrown ==
    /\ isUndoing' = FALSE
    /\ isRedoing' = FALSE
    /\ isLoading' = FALSE
    /\ saved' = "none"
    /\ UNCHANGED <<canvas, backgroundColor, history, saveTimers, saveTimeout, initTimeout,
                   replays, signals, calls, burstUser, burstOpen>>
    /\ UNCHANGED applied

\* undo() or redo() on a snapshot that loadState fails to parse
undoThrown ==
    /\ canUndo
    /\ Called("undo", TRUE)
    /\ currentIndex' = currentIndex - 1
    /\ loadStateThrown

redoThrown ==
    /\ canRedo
    /\ Called("redo", TRUE)
    /\ currentIndex' = currentIndex + 1
    /\ loadStateThrown

\* redo that sets its flag before it tests canRedo()
redoFlagFirst ==
    /\ Called("redo", canRedo)
    /\ IF canRedo
       THEN /\ isRedoing' = TRUE
            /\ currentIndex' = currentIndex + 1
            /\ loadState(history[(currentIndex + 1) + 1])
            /\ UNCHANGED <<history, isUndoing>>
       ELSE /\ isRedoing' = TRUE
            /\ UNCHANGED <<canvas, backgroundColor, history, currentIndex,
                           isUndoing, isLoading, saveTimers, saveTimeout, replays,
                           signals, calls, burstUser, burstOpen>>
    /\ saved' = "none"
    /\ UNCHANGED initTimeout
    /\ UNCHANGED applied

redo ==
    /\ Called("redo", canRedo)
    /\ IF canRedo
       THEN /\ isRedoing' = TRUE
            /\ currentIndex' = currentIndex + 1
            /\ loadState(history[(currentIndex + 1) + 1])
            /\ UNCHANGED <<history, isUndoing>>
       ELSE UNCHANGED <<canvas, backgroundColor, history, currentIndex, isRedoing,
                        isUndoing, isLoading, saveTimers, saveTimeout, replays,
                        signals, calls, burstUser, burstOpen>>
    /\ saved' = "none"
    /\ UNCHANGED initTimeout
    /\ UNCHANGED applied

\* a direct call of the public saveState()
SaveState ==
    /\ Called("saveState", TRUE)
    /\ saveState(history, currentIndex)
    /\ UNCHANGED <<canvas, backgroundColor, isRedoing, isUndoing, isLoading, saveTimers,
                   saveTimeout, initTimeout, replays, signals, calls, burstUser, burstOpen>>
    /\ UNCHANGED applied

\* clear() whose saveState starts from the index of the discarded history
clearStaleIndex ==
    /\ Called("clear", TRUE)
    /\ saveState(<<>>, currentIndex)
    /\ UNCHANGED <<canvas, backgroundColor, isRedoing, isUndoing, isLoading, saveTimers,
                   saveTimeout, initTimeout, replays, signals, calls, burstUser, burstOpen>>
    /\ UNCHANGED applied

clear ==
    /\ Called("clear", TRUE)
    /\ saveState(<<>>, -1)
    /\ UNCHANGED <<canvas, backgroundColor, isRedoing, isUndoing, isLoading, saveTimers,
                   saveTimeout, initTimeout, replays, signals, calls, burstUser, burstOpen>>
    /\ UNCHANGED applied

(***************************************************************************)
(* The user edits the drawing surface; fabric fires the mutation signal.   *)
(***************************************************************************)
onCanvas(id) == \E k \in 1..Len(canvas) : canvas[k].id = id

\* canvas.add(o) by the editor: 'object:added'
ObjectAdded(o) ==
    /\ Called("objectAdded", TRUE)
    /\ ~onCanvas(o.id)
    /\ canvas' = Append(canvas, o)
    /\ Signal(1, TRUE, guarded)
    /\ saved' = "none"
    /\ UNCHANGED <<backgroundColor, history, currentIndex, isRedoing, isUndoing,
                   isLoading, initTimeout, replays>>
    /\ UNCHANGED applied

\* canvas.remove(canvas[k]) by the editor: 'object:removed'
ObjectRemoved(k) ==
    /\ Called("objectRemoved", TRUE)
    /\ k \in 1..Len(canvas)
    /\ canvas' = RemoveAt(canvas, k)
    /\ Signal(1, TRUE, guarded)
    /\ saved' = "none"
    /\ UNCHANGED <<backgroundColor, history, currentIndex, isRedoing, isUndoing,
                   isLoading, initTimeout, replays>>
    /\ UNCHANGED applied

\* the user moves canvas[k]: 'object:modified'
ObjectModified(k) ==
    /\ Called("objectModified", TRUE)
    /\ k \in 1..Len(canvas)
    /\ canvas' = [canvas EXCEPT ![k].left = 1 - @]
    /\ Signal(1, TRUE, guarded)
    /\ saved' = "none"
    /\ UNCHANGED <<backgroundColor, history, currentIndex, isRedoing, isUndoing,
                   isLoading, initTimeout, replays>>
    /\ UNCHANGED applied

(***************************************************************************)
(* The clock.                                                              *)
(***************************************************************************)
pendingTimers ==
    {saveTimers[k] : k \in 1..Len(saveTimers)}
        \cup {replays[r].timer : r \in 1..Len(replays)}
        \cup {initTimeout}

elapse(t) == IF t = NoTimer THEN NoTimer ELSE t - Quantum

Tick ==
    /\ pendingTimers # {NoTimer}
    /\ 0 \notin pendingTimers
    /\ saveTimers' = [k \in 1..Len(saveTimers) |-> elapse(saveTimers[k])]
    /\ replays' = [r \in 1..Len(replays) |-> [replays[r] EXCEPT !.timer = elapse(@)]]
    /\ initTimeout' = elapse(initTimeout)
    /\ op' = "tick"
    /\ saved' = "none"
    /\ UNCHANGED <<canvas, backgroundColor, history, currentIndex, isRedoing, isUndoing,
                   isLoading, saveTimeout, trace, signals, calls, burstUser, burstOpen>>
    /\ UNCHANGED applied

(***************************************************************************)
(* new CanvasHistoryManager(canvas) on a canvas showing the grid.          *)
(***************************************************************************)
\* no function of textUtils has been called
NotApplied == [fn |-> "none"]

\* the fields of a manager constructed on the surface objs
constructed(objs) ==
    /\ canvas = objs
    /\ backgroundColor = "#ffffff"
    /\ history = <<>>
    /\ currentIndex = -1
    /\ isRedoing = FALSE
    /\ isUndoing = FALSE
    /\ isLoading = FALSE
    /\ saveTimers = <<>>
    /\ saveTimeout = FALSE
    /\ initTimeout = InitDelay
    /\ replays = <<>>
    /\ op = "new"
    /\ saved = "none"
    /\ trace = <<>>
    /\ signals = 0
    /\ calls = 0
    /\ burstUser = FALSE
    /\ burstOpen = FALSE

\* a manager constructed on the surface objs
InitOn(objs) == constructed(objs) /\ applied = NotApplied

\* the editor constructs the manager on the canvas that holds the grid
Init == InitOn(<<GridLine>>)

Running ==
    \/ \E k \in 1..Len(saveTimers) : DebounceTimer(k)
    \/ \E r \in 1..Len(replays) : SettleTimer(r)
    \/ \E r \in 1..Len(replays) : \E p \in replays[r].todo : EnlivenResolved(r, p)
    \/ \E r \in 1..Len(replays) : \E p \in replays[r].todo : EnlivenRejected(r, p)
    \/ undo
    \/ redo
    \/ SaveState
    \/ clear
    \/ \E o \in Pool : ObjectAdded(o)
    \/ \E k \in 1..Len(canvas) : ObjectRemoved(k)
    \/ \E k \in 1..Len(canvas) : ObjectModified(k)
    \/ Tick

Next ==
    \/ ConstructorTimer
    \/ Running

Spec == Init /\ [][Next]_vars

(***************************************************************************)
(* A manager that has captured n >= 2 snapshots: the empty surface, then   *)
(* the shape added, then the shape moved back and forth, each edit         *)
(* followed by its debounced capture.  The trace starts anew with the      *)
(* calls in done.                                                          *)
(***************************************************************************)
capturedSurface(k) ==
    IF k = 1 THEN <<GridLine>> ELSE <<GridLine, [Shape EXCEPT !.left = k % 2]>>

capturedHistory(n) == [k \in 1..n |-> stateData(capturedSurface(k), "#ffffff")]

\* what history holds of n captures: the size limit has evicted the oldest
keptHistory(n) ==
    IF n > maxHistorySize
    THEN SubSeq(capturedHistory(n), n - maxHistorySize + 1, n)
    ELSE capturedHistory(n)

\* the manager after n captures, on a surface objs whose user content is that
\* of the n-th capture
InitAtOn(objs, n, done) ==
    /\ applied = NotApplied
    /\ canvas = objs
    /\ backgroundColor = "#ffffff"
    /\ history = keptHistory(n)
    /\ currentIndex = Len(keptHistory(n)) - 1
    /\ isRedoing = FALSE
    /\ isUndoing = FALSE
    /\ isLoading = FALSE
    /\ saveTimers = <<>>
    /\ saveTimeout = FALSE
    /\ initTimeout = NoTimer
    /\ replays = <<>>
    /\ op = "debounceTimer"
    /\ saved = "pushed"
    /\ trace = done
    /\ signals = 1
    /\ calls = 1
    /\ burstUser = TRUE
    /\ burstOpen = TRUE

InitAt(n, done) == InitAtOn(capturedSurface(n), n, done)

\* one capture short of the size limit, the edit it captured being the latest call
SpecCap ==
    InitAt(maxHistorySize - 1, <<[op |-> "objectModified", ret |-> TRUE]>>) /\ [][Running]_vars

\* surfaces of at most MaxSurface objects, each marked or not as excluded from
\* export, with any of the strokes
Strokes == {GridLight, GridDark, LineStroke, NoStroke}

surfaceObject(k, excluded, colour) ==
    [id |-> k, excludeFromExport |-> excluded, stroke |-> colour, left |-> 0,
     selectable |-> TRUE,
     malformed |-> FALSE]

Surfaces ==
    UNION {[1..n -> BOOLEAN \X Strokes] : n \in 0..MaxSurface}

surfaceOf(f) == [k \in DOMAIN f |-> surfaceObject(k, f[k][1], f[k][2])]

\* a manager constructed on any surface, then saveState() and clear() calls
SpecSurface ==
    /\ \E f \in Surfaces : InitOn(surfaceOf(f))
    /\ [][ConstructorTimer \/ Tick \/ SaveState \/ clear]_vars

\* one capture past the size limit: the first capture has been evicted
SpecFull ==
    InitAt(maxHistorySize + 1, <<[op |-> "objectModified", ret |-> TRUE]>>) /\ [][Running]_vars

\* three captures, the shape of the last one lying between two lines of the grid
GridSurface == <<GridHeavy, [Shape EXCEPT !.left = 1], GridLine>>

SpecGrid ==
    /\ InitAtOn(GridSurface, 3, <<[op |-> "objectModified", ret |-> TRUE]>>)
    /\ [][Running]_vars

\* the timers of the event loop fire once they are due, and time passes
TimersFire ==
    /\ WF_vars(Tick)
    /\ WF_vars(\E k \in 1..Len(saveTimers) : DebounceTimer(k))
    /\ WF_vars(\E r \in 1..Len(replays) : SettleTimer(r))

\* three captures, then calls of which some fail in loadState, under timers that fire
SpecLive ==
    /\ InitAt(3, <<[op |-> "objectModified", ret |-> TRUE]>>)
    /\ [][Running \/ undoThrown \/ redoThrown]_vars
    /\ TimersFire

\* three captures, then calls and edits of which some add an object that
\* cannot be serialized
SpecBroken ==
    /\ InitAt(3, <<[op |-> "objectModified", ret |-> TRUE]>>)
    /\ [][Running \/ ObjectAdded(Broken)]_vars

\* history [S0, S1, S2] with currentIndex = 2
ThreeHistory == capturedHistory(3)

SpecThree == InitAt(3, <<>>) /\ [][Running]_vars

\* the steps of a manager on which only undo() and redo() are called
Replaying ==
    \/ \E k \in 1..Len(saveTimers) : DebounceTimer(k)
    \/ \E r \in 1..Len(replays) : SettleTimer(r)
    \/ \E r \in 1..Len(replays) : \E p \in replays[r].todo : EnlivenResolved(r, p)
    \/ \E r \in 1..Len(replays) : \E p \in replays[r].todo : EnlivenRejected(r, p)
    \/ undo
    \/ redo
    \/ Tick

\* three captures, then any sequence of undo() and redo() calls
SpecReplay == InitAt(3, <<>>) /\ [][Replaying]_vars

(***************************************************************************)
(* textUtils (lib/canvas/textUtils): text measurement and shape sizing.    *)
(* Lengths are in tenths of a pixel, so that the factors 0.6, 0.7, 0.8,    *)
(* 1.2, 1.5 and 2.5 of the code stay exact on whole pixels.  A text is a   *)
(* sequence of characters, letters or spaces.                              *)
(***************************************************************************)
px(n) == n * 10

\* Math.ceil of a length
ceil(t) == IF t % 10 = 0 THEN t ELSE t - (t % 10) + 10

isWhole(t) == t % 10 = 0

max(a, b) == IF a >= b THEN a ELSE b

maxOf(S) == CHOOSE x \in S : \A y \in S : y <= x

\* Math.max() of no argument, times anything
NegInfinity == -(10 ^ 9)

Chars == {"a", " "}

Texts == UNION {[1..n -> Chars] : n \in 0..MaxText}

ShapeTypes == {"rectangle", "circle", "diamond", "ellipse", "triangle"}

\* font sizes whose products with 0.6 and 1.2 are exact in floating point
FontSizes == {14, 30}

\* minWidth and minHeight, in pixels
Mins == {40, 80, 100}

\* a test for the empty string in place of text.trim()
isBlankEmptyOnly(text) == text = <<>>

\* text.trim() is empty
isBlank(text) == \A k \in 1..Len(text) : text[k] = " "

\* text.split(' ')
RECURSIVE split(_)
split(text) ==
    IF \A k \in 1..Len(text) : text[k] # " "
    THEN <<text>>
    ELSE LET k == CHOOSE k \in 1..Len(text) :
                      text[k] = " " /\ \A j \in 1..(k - 1) : text[j] # " "
         IN  <<SubSeq(text, 1, k - 1)>> \o split(SubSeq(text, k + 1, Len(text)))

\* ctx.measureText(line).width under the metrics of a font: the advance of a
\* letter is half the font size, that of a space three tenths of it
RECURSIVE advanceWidth(_, _)
advanceWidth(line, fontSize) ==
    IF line = <<>> THEN 0
    ELSE (IF Head(line) = " " THEN fontSize * 3 ELSE fontSize * 5)
         + advanceWidth(Tail(line), fontSize)

\* the width the wrapping loop compares with maxWidth: measured on a canvas
\* context when rendering, estimated from the number of characters otherwise
lineWidth(line, fontSize, rendering) ==
    IF rendering THEN advanceWidth(line, fontSize) ELSE Len(line) * (fontSize * 6)

\* the loop without its test that the current line holds a word
RECURSIVE wrapFromEager(_, _, _, _, _, _, _)
wrapFromEager(words, k, lines, currentLine, maxWidth, fontSize, rendering) ==
    IF k > Len(words)
    THEN IF currentLine # <<>> THEN Append(lines, currentLine) ELSE lines
    ELSE LET word == words[k]
             testLine == IF currentLine # <<>> THEN currentLine \o <<" ">> \o word
                                               ELSE word
         IN  IF lineWidth(testLine, fontSize, rendering) > maxWidth
             THEN wrapFromEager(words, k + 1, Append(lines, currentLine), word,
                                maxWidth, fontSize, rendering)
             ELSE wrapFromEager(words, k + 1, lines, testLine, maxWidth, fontSize,
                                rendering)

\* the loop over the words, from word k on
RECURSIVE wrapFrom(_, _, _, _, _, _, _)
wrapFrom(words, k, lines, currentLine, maxWidth, fontSize, rendering) ==
    IF k > Len(words)
    THEN IF currentLine # <<>> THEN Append(lines, currentLine) ELSE lines
    ELSE LET word == words[k]
             testLine == IF currentLine # <<>> THEN currentLine \o <<" ">> \o word
                                               ELSE word
         IN  IF lineWidth(testLine, fontSize, rendering) > maxWidth /\ currentLine # <<>>
             THEN wrapFrom(words, k + 1, Append(lines, currentLine), word,
                           maxWidth, fontSize, rendering)
             ELSE wrapFrom(words, k + 1, lines, testLine, maxWidth, fontSize, rendering)

\* maxWidth absent (or 0): if (maxWidth) fails
NoWidth == 0

wrappedLines(text, fontSize, maxWidth, rendering) ==
    IF maxWidth # NoWidth
    THEN wrapFrom(split(text), 1, <<>>, <<>>, maxWidth, fontSize, rendering)
    ELSE <<text>>

\* an estimate that takes the width of the last line for that of the longest
estimateTextDimensionsLastLine(text, fontSize, maxWidth) ==
    LET lines == wrappedLines(text, fontSize, maxWidth, FALSE)
    IN  [width |-> IF lines = <<>> THEN NegInfinity
                   ELSE ceil(Len(lines[Len(lines)]) * (fontSize * 6)),
         height |-> ceil(Len(lines) * (fontSize * 12)),
         lines |-> lines]

estimateTextDimensions(text, fontSize, maxWidth) ==
    LET lines == wrappedLines(text, fontSize, maxWidth, FALSE)
    IN  [width |-> IF lines = <<>> THEN NegInfinity
                   ELSE ceil(maxOf({Len(lines[k]) : k \in 1..Len(lines)}) * (fontSize * 6)),
         height |-> ceil(Len(lines) * (fontSize * 12)),
         lines |-> lines]

\* rendering: document and a 2d context exist
measureText(text, fontSize, maxWidth, rendering) ==
    IF ~rendering
    THEN estimateTextDimensions(text, fontSize, maxWidth)
    ELSE LET lines == wrappedLines(text, fontSize, maxWidth, TRUE)
         IN  [width |-> ceil(maxOf({0} \cup {advanceWidth(lines[k], fontSize) :
                                                k \in 1..Len(lines)})),
              height |-> ceil(Len(lines) * (fontSize * 12)),
              lines |-> lines]

basePadding(shapeType) ==
    CASE shapeType = "rectangle" -> px(16)
      [] shapeType = "circle" -> px(20)
      [] shapeType = "diamond" -> px(24)
      [] shapeType = "ellipse" -> px(20)
      [] shapeType = "triangle" -> px(20)

maxTextWidth(shapeType, minWidth) ==
    CASE shapeType = "circle" -> max(px(120), (minWidth * 7) \div 10)
      [] shapeType = "diamond" -> max(px(100), (minWidth * 6) \div 10)
      [] shapeType = "triangle" -> max(px(80), (minWidth * 8) \div 10)
      [] OTHER -> max(px(150), minWidth - basePadding(shapeType))

\* the diameter of a circle: minHeight takes no part in it
circleSize(textMetrics, padding, minWidth, minHeight) ==
    max(max(textMetrics.width + padding * 2, textMetrics.height + padding * 2), minWidth)

calculateShapeSize(text, shapeType, fontSize, minWidth, minHeight, rendering) ==
    IF isBlank(text)
    THEN [width |-> minWidth, height |-> minHeight, padding |-> px(16)]
    ELSE LET padding == basePadding(shapeType)
             textMetrics == measureText(text, fontSize, maxTextWidth(shapeType, minWidth),
                                        rendering)
             finalWidth ==
                 CASE shapeType = "circle" ->
                          circleSize(textMetrics, padding, minWidth, minHeight)
                   [] shapeType = "diamond" ->
                          max(textMetrics.width + (padding * 25) \div 10, minWidth)
                   [] shapeType = "triangle" ->
                          max(textMetrics.width + (padding * 15) \div 10, minWidth)
                   [] OTHER -> max(textMetrics.width + padding, minWidth)
             finalHeight ==
                 CASE shapeType = "circle" ->
                          circleSize(textMetrics, padding, minWidth, minHeight)
                   [] shapeType \in {"diamond", "triangle"} ->
                          max(textMetrics.height + padding * 2, minHeight)
                   [] OTHER -> max(textMetrics.height + padding, minHeight)
         IN  [width |-> ceil(finalWidth), height |-> ceil(finalHeight), padding |-> padding]

\* the fields of the history manager
manager == <<canvas, backgroundColor, history, currentIndex, isRedoing, isUndoing,
             isLoading, saveTimers, saveTimeout, initTimeout, replays, op, saved,
             trace, signals, calls, burstUser, burstOpen>>

NoSize == [width |-> 0, height |-> 0, padding |-> 0]

\* the calls of calculateShapeSize, before they run
ShapeSizeCalls ==
    [fn : {"calculateShapeSize"}, text : Texts, shapeType : ShapeTypes,
     fontSize : FontSizes, minWidth : {px(m) : m \in Mins},
     minHeight : {px(m) : m \in Mins}, rendering : BOOLEAN,
     returned : {FALSE}, measured : {FALSE}, ret : {NoSize}]

\* measured: the call went past its early return and called measureText
\* value || fallback, for a length that may be absent
orElse(value, fallback) == IF value = 0 THEN fallback ELSE value

\* the sizes of the shapes, each computed on its own
ownSizes(shapes, rendering) ==
    [i \in 1..Len(shapes) |->
        calculateShapeSize(shapes[i].text, shapes[i].type, 14,
                           orElse(shapes[i].minWidth, px(80)),
                           orElse(shapes[i].minHeight, px(40)), rendering)]

\* a normalization that raises widths to 60% of the widest only
normalizeShapeSizesLow(shapes, rendering) ==
    LET sizes == ownSizes(shapes, rendering)
        maxWidth == maxOf({sizes[i].width : i \in 1..Len(sizes)})
        maxHeight == maxOf({sizes[i].height : i \in 1..Len(sizes)})
    IN  [i \in 1..Len(sizes) |->
            [sizes[i] EXCEPT !.width = max(@, (maxWidth * 6) \div 10),
                             !.height = max(@, (maxHeight * 8) \div 10)]]

normalizeShapeSizes(shapes, rendering) ==
    LET sizes == ownSizes(shapes, rendering)
        maxWidth == maxOf({sizes[i].width : i \in 1..Len(sizes)})
        maxHeight == maxOf({sizes[i].height : i \in 1..Len(sizes)})
    IN  [i \in 1..Len(sizes) |->
            [sizes[i] EXCEPT !.width = max(@, (maxWidth * 7) \div 10),
                             !.height = max(@, (maxHeight * 8) \div 10)]]

\* the entries of a batch: a blank label or one of two words; minima absent
\* or given
BatchTexts == {<<>>, <<"a", "a", "a", " ", "a", "a">>}

BatchMins == {0, px(200)}

BatchShapes ==
    [text : BatchTexts, type : ShapeTypes, minWidth : BatchMins, minHeight : BatchMins]

Batches == UNION {[1..n -> BatchShapes] : n \in 0..MaxBatch}

\* the calls of normalizeShapeSizes, before they run
NormalizeCalls ==
    [fn : {"normalizeShapeSizes"}, shapes : Batches, rendering : BOOLEAN,
     returned : {FALSE}, ret : {<<>>}]

NormalizeShapeSizes ==
    /\ applied.fn = "normalizeShapeSizes"
    /\ ~applied.returned
    /\ applied' = [applied EXCEPT
                      !.returned = TRUE,
                      !.ret = normalizeShapeSizes(applied.shapes, applied.rendering)]
    /\ UNCHANGED manager

\* a call of normalizeShapeSizes on any batch of at most MaxBatch shapes
SpecBatch ==
    /\ constructed(<<GridLine>>)
    /\ applied \in NormalizeCalls
    /\ [][NormalizeShapeSizes]_vars

\* maxWidth of a measureText call: absent, or given in pixels
MaxWidths == {NoWidth, px(40), px(80)}

NoMetrics == [width |-> 0, height |-> 0, lines |-> <<>>]

\* the calls of measureText, before they run
MeasureTextCalls ==
    [fn : {"measureText"}, text : Texts, fontSize : FontSizes, maxWidth : MaxWidths,
     rendering : BOOLEAN, returned : {FALSE}, ret : {NoMetrics}]

MeasureText ==
    /\ applied.fn = "measureText"
    /\ ~applied.returned
    /\ applied' = [applied EXCEPT
                      !.returned = TRUE,
                      !.ret = measureText(applied.text, applied.fontSize,
                                          applied.maxWidth, applied.rendering)]
    /\ UNCHANGED manager

CalculateShapeSize ==
    /\ applied.fn = "calculateShapeSize"
    /\ ~applied.returned
    /\ applied' = [applied EXCEPT
                      !.returned = TRUE,
                      !.measured = ~isBlank(applied.text),
                      !.ret = calculateShapeSize(applied.text, applied.shapeType,
                                                 applied.fontSize, applied.minWidth,
                                                 applied.minHeight, applied.rendering)]
    /\ UNCHANGED manager

\* a call of calculateShapeSize on any text, shape type, font size and minima,
\* or a call of measureText on any text, font size and maxWidth
SpecSize ==
    /\ constructed(<<GridLine>>)
    /\ applied \in ShapeSizeCalls \cup MeasureTextCalls
    /\ [][CalculateShapeSize \/ MeasureText]_vars

(***************************************************************************)
(* GeminiAIService.preventNodeOverlaps: the layout pass over the nodes of  *)
(* a generated diagram.  Positions and sizes are in pixels.                *)
(***************************************************************************)
SPACING == 30
CanvasRight == 1400
CanvasBottom == 1000

min(a, b) == IF a <= b THEN a ELSE b

\* the overlap test of the pass, on a node and a later one
overlaps(currentNode, otherNode) ==
    LET currentRight == currentNode.x + currentNode.width
        currentBottom == currentNode.y + currentNode.height
        otherRight == otherNode.x + otherNode.width
        otherBottom == otherNode.y + otherNode.height
        overlapX == currentNode.x < otherRight + SPACING
                        /\ currentRight + SPACING > otherNode.x
        overlapY == currentNode.y < otherBottom + SPACING
                        /\ currentBottom + SPACING > otherNode.y
    IN  overlapX /\ overlapY

\* the body of the inner loop: node j is moved away from node i, then kept
\* within the canvas
separated(nodes, i, j) ==
    IF overlaps(nodes[i], nodes[j])
    THEN LET currentNode == nodes[i]
             otherNode == nodes[j]
             moved == IF currentNode.x < otherNode.x
                      THEN [otherNode EXCEPT
                               !.x = currentNode.x + currentNode.width + SPACING]
                      ELSE [otherNode EXCEPT
                               !.y = currentNode.y + currentNode.height + SPACING]
         IN  [nodes EXCEPT ![j] =
                 [moved EXCEPT !.x = min(moved.x, CanvasRight - moved.width),
                               !.y = min(moved.y, CanvasBottom - moved.height)]]
    ELSE nodes

\* the two loops, from the pair (i, j) on
RECURSIVE passFrom(_, _, _)
passFrom(nodes, i, j) ==
    IF i > Len(nodes) THEN nodes
    ELSE IF j > Len(nodes) THEN passFrom(nodes, i + 1, i + 2)
    ELSE passFrom(separated(nodes, i, j), i, j + 1)

preventNodeOverlaps(nodes) == passFrom(nodes, 1, 2)

\* nodes as validateAndProcessResponse hands them over: x within 50..1400,
\* y within 50..1000, sizes from normalizeShapeSizes
NodeXs == {50, 100, 1400}
NodeYs == {50, 1000}
NodeWidths == {100, 200}
NodeHeights == {50}

Nodes == [x : NodeXs, y : NodeYs, width : NodeWidths, height : NodeHeights]

NodeLists == UNION {[1..n -> Nodes] : n \in 0..MaxNodes}

\* the calls of preventNodeOverlaps, before they run
LayoutCalls ==
    [fn : {"preventNodeOverlaps"}, nodes : NodeLists, returned : {FALSE}, ret : {<<>>}]

PreventNodeOverlaps ==
    /\ applied.fn = "preventNodeOverlaps"
    /\ ~applied.returned
    /\ applied' = [applied EXCEPT !.returned = TRUE,
                                  !.ret = preventNodeOverlaps(applied.nodes)]
    /\ UNCHANGED manager

\* a call of preventNodeOverlaps on any list of at most MaxNodes nodes
SpecLayout ==
    /\ constructed(<<GridLine>>)
    /\ applied \in LayoutCalls
    /\ [][PreventNodeOverlaps]_vars

(***************************************************************************)
(* Properties.                                                             *)
(***************************************************************************)
Last(q) == q[Len(q)]

\* a step in which saveState() ran on the history as it stood and captured
Captures == saved' # "none" /\ op' # "clear"

\* C1: in every reachable state -1 <= currentIndex <= length(history) - 1,
\* and currentIndex is -1 only when history is empty.
IndexWithinHistory ==
    /\ -1 <= currentIndex
    /\ currentIndex <= Len(history) - 1
    /\ (currentIndex = -1 => history = <<>>)

\* an undo has moved the index below the end of a history of two
IndexBelowEnd ==
    /\ op = "undo"
    /\ Len(history) = 2
    /\ currentIndex = 0

\* C2: when saveState() appends while currentIndex < length(history) - 1, the
\* snapshots after the old currentIndex are discarded: positions 0..oldIndex are
\* unchanged, the new snapshot is last, currentIndex points at it, canRedo() is false.
AppendTruncatesRedoBranch ==
    [][(Captures /\ currentIndex < Len(history) - 1) =>
          /\ Len(history') = currentIndex + 2
          /\ SubSeq(history', 1, currentIndex + 1) = SubSeq(history, 1, currentIndex + 1)
          /\ Last(history') = stateData(canvas, backgroundColor)
          /\ currentIndex' = Len(history') - 1
          /\ ~(currentIndex' < Len(history') - 1)]_vars

\* a capture has just discarded a redo branch
RedoBranchDiscarded ==
    /\ saved = "sliced"
    /\ currentIndex = Len(history) - 1

\* C3: length(history) never exceeds the cap; an append past the cap evicts
\* index 0 and decrements currentIndex, which still points at the new snapshot.
CapRespected ==
    /\ [](Len(history) <= maxHistorySize)
    /\ [][(Captures /\ Len(history) = maxHistorySize /\ currentIndex = Len(history) - 1) =>
            /\ history' = Tail(Append(history, stateData(canvas, backgroundColor)))
            /\ currentIndex' = currentIndex
            /\ history'[currentIndex' + 1] = stateData(canvas, backgroundColor)
            /\ currentIndex' = Len(history') - 1]_vars

\* a capture has just evicted the oldest snapshot
OldestEvicted ==
    /\ saved = "shifted"
    /\ Len(history) = maxHistorySize

\* the entry loadState(data) adds for its replay
replaying(e, data) ==
    /\ e.objects = data.objects
    /\ e.todo = 1..Len(data.objects)
    /\ e.timer = SettleDelay

\* C4: undo() with currentIndex > 0 returns true, sets isUndoing, decrements
\* currentIndex by 1 and replays history[new currentIndex], history unchanged;
\* redo() with currentIndex < length(history) - 1 does the same upwards.
UndoRedoMoveAndReplay ==
    [][/\ (op' = "undo" /\ currentIndex > 0) =>
            /\ Last(trace').ret = TRUE
            /\ isUndoing'
            /\ currentIndex' = currentIndex - 1
            /\ history' = history
            /\ replaying(Last(replays'), history[currentIndex' + 1])
            /\ userObjects(canvas') = <<>>
       /\ (op' = "redo" /\ currentIndex < Len(history) - 1) =>
            /\ Last(trace').ret = TRUE
            /\ isRedoing'
            /\ currentIndex' = currentIndex + 1
            /\ history' = history
            /\ replaying(Last(replays'), history[currentIndex' + 1])
            /\ userObjects(canvas') = <<>>]_vars

\* a redo has just succeeded, after an undo that did
RedoDone ==
    /\ op = "redo"
    /\ Last(trace).ret = TRUE
    /\ isRedoing
    /\ \E k \in 1..Len(trace) : trace[k] = [op |-> "undo", ret |-> TRUE]

\* C5: undo() returns false exactly when currentIndex <= 0 and redo() exactly
\* when currentIndex >= length(history) - 1, and then nothing changes: history,
\* currentIndex, the guard flags and the drawing surface.
RefusedUndoRedoIsNoOp ==
    [][/\ op' = "undo" => (Last(trace').ret = FALSE <=> currentIndex <= 0)
       /\ op' = "redo" => (Last(trace').ret = FALSE <=> currentIndex >= Len(history) - 1)
       /\ (\/ op' = "undo" /\ currentIndex <= 0
           \/ op' = "redo" /\ currentIndex >= Len(history) - 1) =>
              UNCHANGED <<history, currentIndex, isUndoing, isRedoing, isLoading,
                          canvas, backgroundColor>>]_vars

\* a redo at the end of a history and an undo at its start have been refused
BothRefused ==
    /\ \E k \in 1..Len(trace) : trace[k] = [op |-> "undo", ret |-> FALSE]
    /\ op = "redo"
    /\ Last(trace).ret = FALSE
    /\ history # <<>>

\* what of the surface a snapshot records: the serialized user objects
observed(objs) == [k \in 1..Len(userObjects(objs)) |-> toObject(userObjects(objs)[k])]

countOf(q, x) == Cardinality({k \in 1..Len(q) : q[k] = x})

\* the same records, each as often, whatever the order
sameObjects(a, b) ==
    /\ Len(a) = Len(b)
    /\ \A k \in 1..Len(a) : countOf(a, a[k]) = countOf(b, a[k])

\* the latest replay has run to its end, skipped nothing, and the surface
\* shows the snapshot it restored; no other replay is in flight
Restored ==
    /\ replays # <<>>
    /\ \A r \in 1..Len(replays) : ~inFlight(replays[r])
    /\ Last(replays).skipped = {}
    /\ sameObjects(observed(canvas), Last(replays).objects)

undone == [op |-> "undo", ret |-> TRUE]

\* C6: round trip: S0 captured, the surface edited, S1 captured; undo() restores
\* a surface equal to S0 and a subsequent redo() one equal to S1.  Stated for
\* the redo, on a manager whose constructor capture is done and with no edit
\* of the user awaiting its capture: once undo() has restored S0 and nothing
\* was done from outside since, redo() succeeds and replays S1, and nothing
\* else is captured meanwhile.
RoundTripRedo ==
    [][(/\ initTimeout = NoTimer
        /\ saveTimers # <<>> => ~burstUser
        /\ trace # <<>>
        /\ Last(trace) = undone
        /\ Restored) =>
          /\ trace' = trace => ~Captures
          /\ op' = "redo" => Last(trace').ret = TRUE]_vars

\* C7: the notifications a replay itself causes never make a snapshot: the
\* debounce callback captures only for a burst that holds a signal of a user edit.
ReplayNeverCaptured ==
    [][(op' = "debounceTimer" /\ saved' # "none") => burstUser]_vars

\* C8: a mutation signal that arrives under a guard flag is dropped, not
\* queued: the debounce callback captures only for a burst in which some
\* signal arrived while no flag was set.
GuardedSignalDropped ==
    [][(op' = "debounceTimer" /\ saved' # "none") => burstOpen]_vars

burstOver == saveTimers = <<>> /\ signals > 0

isSignal(o) == o \in {"objectAdded", "objectRemoved", "objectModified", "enlivenResolved"}

\* C9 as stated: at most one debounce timer is pending, and a burst of n >= 1
\* signals leads to exactly one saveState() invocation, after its last signal.
BurstSavesExactlyOnce ==
    /\ Len(saveTimers) <= 1
    /\ saveTimers # <<>> => calls = 0
    /\ burstOver => calls = 1

\* C9 amended: every signal cancels the pending timer and starts a new one, at
\* most one timer is pending, and a burst leads to exactly one run of the
\* debounce callback, after its last signal; the run invokes saveState() once
\* if no guard flag is set at that moment and not at all otherwise.
BurstSavesAtMostOnce ==
    /\ [](/\ Len(saveTimers) <= 1
          /\ saveTimers # <<>> => calls = 0
          /\ burstOver => calls <= 1)
    /\ [][/\ isSignal(op') => saveTimers' = <<DebounceDelay>>
          /\ op' = "debounceTimer" =>
               /\ saveTimers' = <<>>
               /\ calls' = IF isRedoing \/ isUndoing \/ isLoading THEN 0 ELSE 1]_vars

\* a burst of several signals has ended in one saveState()
BurstSaved ==
    /\ burstOver
    /\ signals >= 2
    /\ calls = 1
    /\ op = "debounceTimer"

\* history is [S0, S1, S2] still, after two undos and at most edits since
TwiceUndone ==
    /\ Len(trace) >= 2
    /\ trace[1] = undone
    /\ trace[2] = undone
    /\ \A k \in 3..Len(trace) : isSignal(trace[k].op)
    /\ history = ThreeHistory
    /\ currentIndex = 0

TruncatedToTwo ==
    /\ history' = <<ThreeHistory[1], stateData(canvas, backgroundColor)>>
    /\ ~(currentIndex' < Len(history') - 1)

UndoChainDescends ==
    (/\ trace # <<>>
     /\ \A k \in 2..Len(trace) : trace[k] = undone) =>
        /\ history = keptHistory(maxHistorySize + 1)
        /\ currentIndex = (maxHistorySize - 1) - (Len(trace) - 1)

\* the history is the single snapshot of the surface, nothing to undo or redo
baseline(h, i, objs, bg) ==
    /\ h = <<stateData(objs, bg)>>
    /\ i = 0
    /\ ~(i > 0)
    /\ ~(i < Len(h) - 1)

userContent(obj) ==
    ~(obj.excludeFromExport \/ obj.stroke \in {"#F1F5F9", "#CBD5E1"})

\* C13: every snapshot captured by saveState() contains exactly the surface
\* objects that are user content, in surface order; an object is left out iff
\* it is marked excludeFromExport or its stroke is #F1F5F9 or #CBD5E1.
SnapshotIsUserContent ==
    [][saved' # "none" =>
          LET snap == history'[currentIndex' + 1].objects
              kept == SelectSeq(canvas, userContent)
          IN  /\ Len(snap) = Len(kept)
              /\ \A k \in 1..Len(kept) :
                    /\ snap[k].id = kept[k].id
                    /\ snap[k].stroke = kept[k].stroke
                    /\ snap[k].excludeFromExport = kept[k].excludeFromExport]_vars

\* a capture of a surface holding an object excluded by its mark alone, one
\* excluded by its stroke alone, and one that is user content
MixedSurfaceCaptured ==
    /\ saved # "none"
    /\ Len(history[currentIndex + 1].objects) = 1
    /\ \E k \in 1..Len(canvas) :
          canvas[k].excludeFromExport /\ canvas[k].stroke = LineStroke
    /\ \E k \in 1..Len(canvas) :
          ~canvas[k].excludeFromExport /\ canvas[k].stroke = GridDark

decorative(obj) == ~userContent(obj)

\* a step of a replay: the undo() or redo() that starts it, the completion of
\* a reconstruction, the settle timer
replayStep(o) == o \in {"undo", "redo", "enlivenResolved", "enlivenRejected", "settleTimer"}

\* C14: a replay removes every current user object from the surface and leaves
\* every decorative object untouched: the decorative objects and their
\* relative order are the same before and after any undo() or redo().
ReplayKeepsDecoration ==
    [][/\ replayStep(op') =>
            SelectSeq(canvas', decorative) = SelectSeq(canvas, decorative)
       /\ (trace' # trace /\ op' \in {"undo", "redo"} /\ Last(trace').ret) =>
            canvas' = SelectSeq(canvas, decorative)]_vars

\* an undo() has removed the shape from between the two lines of the grid
ShapeRemovedFromGrid ==
    /\ op = "undo"
    /\ Last(trace) = undone
    /\ canvas = <<GridHeavy, GridLine>>

\* the successful undo() and redo() calls so far
replayCalls == {k \in DOMAIN trace : trace[k].op \in {"undo", "redo"} /\ trace[k].ret}

\* C15: once a replay has completed, the restored user objects lie on the
\* surface in the relative order of their records in the snapshot, whatever
\* order the reconstructions completed in.  Stated for the first replay, with
\* no call from outside since the undo() that started it.
RestoredInSnapshotOrder ==
    (/\ replayCalls = {Len(trace)}
     /\ replayStep(op)
     /\ replays # <<>>
     /\ Last(replays).todo = {}) =>
        LET snap == Last(replays).objects
            restored == userObjects(canvas)
        IN  \A a, b \in 1..Len(restored) : \A i, j \in 1..Len(snap) :
                (/\ a < b
                 /\ snap[i].id = restored[a].id
                 /\ snap[j].id = restored[b].id) => i < j

\* C16: the guard flags are always eventually cleared: after every undo() or
\* redo() that started a replay, a state is eventually reached, the timers
\* firing, in which isUndoing, isRedoing and isLoading are all false, also when
\* parsing the snapshot or restoring an object fails.
GuardEventuallyCleared == guarded ~> ~guarded

\* the settle timer has cleared the flags of a replay that skipped an object
ClearedAfterSkippedObject ==
    /\ op = "settleTimer"
    /\ ~guarded
    /\ \E r \in 1..Len(replays) : replays[r].skipped # {}

\* C17: mutation capture is re-enabled only after the whole snapshot is
\* restored: the guard flags are never cleared while some object of the
\* snapshot under replay has not yet finished reconstructing and been added.
FlagsClearedAfterRestore ==
    [][(guarded /\ ~guarded') =>
          \A r \in 1..Len(replays) : replays[r].todo = {}]_vars

\* C18: if one object of a snapshot fails to deserialize during a replay, it
\* is skipped, every other object of the snapshot is still added, no error
\* propagates and the undo()/redo() call still returns true.  Stated for the
\* first replay, with no call from outside since the call that started it:
\* the call returned true, and the user objects on the surface are those of
\* the snapshot's records that are neither pending nor skipped; once none is
\* pending, all but the skipped ones.
SkippedObjectIsolated ==
    (/\ replayCalls = {Len(trace)}
     /\ replayStep(op)
     /\ replays # <<>>) =>
        LET e == Last(replays)
            done == (1..Len(e.objects)) \ (e.todo \cup e.skipped)
            restored == userObjects(canvas)
        IN  /\ Last(trace).ret
            /\ Len(restored) = Cardinality(done)
            /\ \A p \in done : \E k \in 1..Len(restored) :
                  toObject(restored[k]) = e.objects[p]

\* of a snapshot of two objects one was skipped and the other one restored
OneSkippedOneRestored ==
    /\ replayCalls = {Len(trace)}
    /\ replayStep(op)
    /\ replays # <<>>
    /\ Last(replays).todo = {}
    /\ Cardinality(Last(replays).skipped) = 1
    /\ Len(userObjects(canvas)) = 1

\* C19: if serialization throws inside saveState(), the call is abandoned
\* without throwing, and history and currentIndex are exactly as they were
\* before the call (inside clear(): as clear() had just set them).
ThrownCaptureChangesNothing ==
    [][saved' = "threw" =>
          IF op' = "clear"
          THEN history' = <<>> /\ currentIndex' = -1
          ELSE history' = history /\ currentIndex' = currentIndex]_vars

\* a capture has thrown after an undo(), and the redo branch is still there
ThrownCaptureKeptRedoBranch ==
    /\ saved = "threw"
    /\ op = "debounceTimer"
    /\ currentIndex < Len(history) - 1

\* C20: for every shape type, every text and every minWidth and minHeight,
\* calculateShapeSize returns an integer width >= minWidth and an integer
\* height >= minHeight.
SizeAtLeastMinimum ==
    (applied.fn = "calculateShapeSize" /\ applied.returned) =>
        /\ isWhole(applied.ret.width)
        /\ isWhole(applied.ret.height)
        /\ applied.ret.width >= applied.minWidth
        /\ applied.ret.height >= applied.minHeight

\* a call of calculateShapeSize has returned
sized == applied.fn = "calculateShapeSize" /\ applied.returned

\* C21: for empty or whitespace-only text, calculateShapeSize returns exactly
\* (width = minWidth, height = minHeight, padding = 16) for every shape type,
\* without measuring any text.
BlankTextGetsMinimum ==
    (sized /\ \A k \in 1..Len(applied.text) : applied.text[k] = " ") =>
        /\ applied.ret = [width |-> applied.minWidth, height |-> applied.minHeight,
                          padding |-> 160]
        /\ ~applied.measured

\* a circle was sized for a text of two spaces
BlankCircleSized ==
    /\ sized
    /\ applied.text = <<" ", " ">>
    /\ applied.shapeType = "circle"
    /\ applied.ret.padding = 160

\* the padding the contract gives each shape type, in pixels
contractPadding(shapeType) ==
    CASE shapeType = "rectangle" -> 16
      [] shapeType = "circle" -> 20
      [] shapeType = "diamond" -> 24
      [] shapeType = "ellipse" -> 20
      [] shapeType = "triangle" -> 20

\* a length raised to a minimum and rounded up to whole pixels
raised(t, minimum) == ceil(IF t >= minimum THEN t ELSE minimum)

\* C22: for non-empty text, calculateShapeSize returns the base padding p of
\* the shape type and, with (tw, th) the measured text box: circle width =
\* height = max(tw, th) + 2p; diamond (tw + 2.5p, th + 2p); triangle
\* (tw + 1.5p, th + 2p); rectangle and ellipse (tw + p, th + p); each result
\* raised to the respective minimum and rounded up to an integer.  For the
\* circle, whose two results are one diameter, that is the diameter raised to
\* both minima.
SizeFollowsTextBox ==
    (sized /\ \E k \in 1..Len(applied.text) : applied.text[k] # " ") =>
        LET p == px(contractPadding(applied.shapeType))
            box == measureText(applied.text, applied.fontSize,
                               maxTextWidth(applied.shapeType, applied.minWidth),
                               applied.rendering)
            tw == box.width
            th == box.height
            diameter == (IF tw >= th THEN tw ELSE th) + 2 * p
            w == CASE applied.shapeType = "circle" -> raised(diameter, applied.minHeight)
                   [] applied.shapeType = "diamond" -> tw + (5 * p) \div 2
                   [] applied.shapeType = "triangle" -> tw + (3 * p) \div 2
                   [] OTHER -> tw + p
            h == CASE applied.shapeType = "circle" -> raised(diameter, applied.minWidth)
                   [] applied.shapeType \in {"diamond", "triangle"} -> th + 2 * p
                   [] OTHER -> th + p
        IN  /\ applied.ret.padding = p
            /\ applied.ret.width = raised(w, applied.minWidth)
            /\ applied.ret.height = raised(h, applied.minHeight)

\* a call of measureText has returned
measured == applied.fn = "measureText" /\ applied.returned

\* the lines joined with single spaces
RECURSIVE joined(_)
joined(lines) ==
    IF lines = <<>> THEN <<>>
    ELSE IF Len(lines) = 1 THEN lines[1]
    ELSE lines[1] \o <<" ">> \o joined(Tail(lines))

\* non-empty words separated by single spaces
singleSpaced(text) ==
    /\ text # <<>>
    /\ text[1] # " "
    /\ text[Len(text)] # " "
    /\ \A k \in 1..(Len(text) - 1) : ~(text[k] = " " /\ text[k + 1] = " ")

hasSpace(line) == \E k \in 1..Len(line) : line[k] = " "

\* the first word of a line
firstWord(line) ==
    IF hasSpace(line)
    THEN SubSeq(line, 1, (CHOOSE k \in 1..Len(line) :
                              line[k] = " " /\ \A j \in 1..(k - 1) : line[j] # " ") - 1)
    ELSE line

\* C23: measureText with a maxWidth wraps greedily by whole words: for a text
\* of non-empty words separated by single spaces, the lines joined with single
\* spaces reproduce the text; a line is closed only when adding the next word
\* would exceed maxWidth, so every line of more than one word measures at most
\* maxWidth, and a word that alone exceeds maxWidth has a line to itself.
WrapsGreedilyByWords ==
    (measured /\ applied.maxWidth # NoWidth /\ singleSpaced(applied.text)) =>
        LET lines == applied.ret.lines
            width(line) == lineWidth(line, applied.fontSize, applied.rendering)
        IN  /\ joined(lines) = applied.text
            /\ \A k \in 1..Len(lines) :
                  hasSpace(lines[k]) =>
                      /\ width(lines[k]) <= applied.maxWidth
                      /\ \A i, j \in 1..Len(lines[k]) :
                            (i <= j /\ ~hasSpace(SubSeq(lines[k], i, j))) =>
                                width(SubSeq(lines[k], i, j)) <= applied.maxWidth
            /\ \A k \in 1..(Len(lines) - 1) :
                  width(lines[k] \o <<" ">> \o firstWord(lines[k + 1])) > applied.maxWidth

\* a text was wrapped into a line of two words, closed before a third word
\* that would not fit
WrappedAfterTwoWords ==
    /\ measured
    /\ applied.maxWidth = px(40)
    /\ applied.text = <<"a", " ", "a", " ", "a", "a">>
    /\ applied.ret.lines = << <<"a", " ", "a">>, <<"a", "a">> >>

\* a call of normalizeShapeSizes has returned
normalized == applied.fn = "normalizeShapeSizes" /\ applied.returned

widest(sizes) == maxOf({sizes[i].width : i \in 1..Len(sizes)})

tallest(sizes) == maxOf({sizes[i].height : i \in 1..Len(sizes)})

\* C24: normalizeShapeSizes returns one ShapeSize per entry, in input order,
\* and for every entry i: result[i].width >= 0.7 * the largest result width
\* and result[i].height >= 0.8 * the largest result height; no entry is made
\* smaller than its own calculateShapeSize result and the batch maxima are
\* unchanged by normalization.
BatchWithinShareOfMaxima ==
    normalized =>
        LET result == applied.ret
            own == [i \in 1..Len(applied.shapes) |->
                       calculateShapeSize(applied.shapes[i].text, applied.shapes[i].type,
                           14,
                           IF applied.shapes[i].minWidth = 0 THEN px(80)
                           ELSE applied.shapes[i].minWidth,
                           IF applied.shapes[i].minHeight = 0 THEN px(40)
                           ELSE applied.shapes[i].minHeight,
                           applied.rendering)]
        IN  /\ Len(result) = Len(applied.shapes)
            /\ \A i \in 1..Len(result) :
                  /\ result[i].padding = own[i].padding
                  /\ result[i].width >= own[i].width
                  /\ result[i].height >= own[i].height
                  /\ 10 * result[i].width >= 7 * widest(result)
                  /\ 10 * result[i].height >= 8 * tallest(result)
            /\ result # <<>> =>
                  /\ widest(result) = widest(own)
                  /\ tallest(result) = tallest(own)

\* a batch of two in which the smaller shape was raised in both dimensions
SmallerShapeRaised ==
    /\ normalized
    /\ Len(applied.ret) = 2
    /\ applied.ret[1].width = 1400
    /\ applied.ret[1].height = 1600
    /\ applied.ret[2].width = 2000
    /\ applied.ret[2].height = 2000

\* C25: for a fixed shape type, font and wrap constraint, extending a label
\* with more words never yields a smaller computed width than the shorter
\* label: the width computed for a label of several words is at least the
\* width computed for each label made of its first words.
WidthGrowsWithWords ==
    (sized /\ singleSpaced(applied.text)) =>
        \A k \in 1..Len(applied.text) :
            applied.text[k] = " " =>
                calculateShapeSize(SubSeq(applied.text, 1, k - 1), applied.shapeType,
                                   applied.fontSize, applied.minWidth, applied.minHeight,
                                   applied.rendering).width <= applied.ret.width

\* a triangle sized for a label of two words, wrapped into two lines, and
\* wider than the triangle of the first word
TwoWordTriangleSized ==
    /\ sized
    /\ applied.text = <<"a", "a", " ", "a", "a", "a">>
    /\ applied.shapeType = "triangle"
    /\ applied.fontSize = 30
    /\ ~applied.rendering
    /\ applied.minWidth = px(40)
    /\ applied.ret.width = px(84)

\* C26: after preventNodeOverlaps has run on any list of nodes, no two nodes
\* overlap: for every pair i < j the overlap test of the pass itself (the
\* boxes enlarged by the 30px spacing intersect on both axes) is false.
NoOverlapAfterPass ==
    (applied.fn = "preventNodeOverlaps" /\ applied.returned) =>
        \A i, j \in 1..Len(applied.ret) :
            i < j => ~overlaps(applied.ret[i], applied.ret[j])

\* every started replay has rebuilt all its objects and skipped none, and no
\* timer is pending
quiescent ==
    /\ \A r \in 1..Len(replays) :
           ~inFlight(replays[r]) /\ replays[r].skipped = {}
    /\ saveTimers = <<>>
    /\ initTimeout = NoTimer

\* some undo() or redo() started a replay, and since the last one that did
\* nothing but undo() and redo() was called from outside
untouchedSinceReplay ==
    /\ replayCalls # {}
    /\ \A k \in DOMAIN trace :
           (\A c \in replayCalls : c < k) => trace[k].op \in {"undo", "redo"}

\* C27: at quiescence (every started replay has finished reconstructing its
\* objects, all timers have fired, and the user has not mutated the surface
\* since the last undo/redo) the user objects on the surface are exactly the
\* objects of history[currentIndex], for every sequence of undo() and redo()
\* calls, also those issued while an earlier replay is still adding objects.
SurfaceIsCurrentSnapshot ==
    (quiescent /\ untouchedSinceReplay) =>
        /\ currentIndex \in 0..(Len(history) - 1)
        /\ sameObjects(observed(canvas), history[currentIndex + 1].objects)

\* two undo() calls of which the second came while the first replay was still
\* rebuilding its shape: the shape was added after the second replay had
\* cleared the surface, and the capture that followed recorded it
StaleReplayRecaptured ==
    /\ quiescent
    /\ trace = <<undone, undone>>
    /\ observed(canvas) # <<>>
    /\ Len(history) = 2
    /\ currentIndex = 1

\* C28: each replay is guarded for its whole duration: from the undo() or
\* redo() call that starts it until its own settle timer fires, at least one
\* of isUndoing, isRedoing, isLoading is true, also when the settle timer of
\* a replay started shortly before fires in between.
ReplayGuardedUntilSettled ==
    \A r \in 1..Len(replays) : replays[r].timer # NoTimer => guarded

\* C29: circles stay circles through batch normalization: every entry of type
\* circle returned by normalizeShapeSizes has width = height, for every batch.
CirclesStayCircles ==
    normalized =>
        \A i \in 1..Len(applied.ret) :
            applied.shapes[i].type = "circle" =>
                applied.ret[i].width = applied.ret[i].height

\* C30: measureText is total with well-formed results in the no-rendering
\* fallback: for every text, the empty one included, and every maxWidth,
\* absent or given, it returns a finite width >= 0, a height >= 0 and at
\* least one line.
FallbackMetricsWellFormed ==
    (applied.fn = "measureText" /\ applied.returned /\ ~applied.rendering) =>
        /\ applied.ret.width >= 0
        /\ applied.ret.height >= 0
        /\ Len(applied.ret.lines) >= 1

====
